---- MODULE Spec2Model ----
(***************************************************************************)
(* The Thumbnail Resolver, scripts/fetch-thumbnails.mjs: one run reads     *)
(* books.json, writes books.json.backup, walks the records in index order, *)
(* queries the Google Books service with a cascade of up to four lookups   *)
(* per record, and overwrites books.json once at the end.                  *)
(*                                                                         *)
(* A JavaScript string is a sequence of one-character strings.  A missing  *)
(* property (undefined) and null are the one-element sequences Undefined   *)
(* and Null, whose element is no character.                                *)
(***************************************************************************)
EXTENDS Integers, Sequences, FiniteSets, TLC

\* Longest collection in the data file the model explores.
MaxBooks == 2

\* The elapsed-delay clock stops counting here (milliseconds).
MaxElapsed == 1200

\* await sleep(200) between records; await sleep(1000) after a 429.
RateLimitDelay == 200
CooldownDelay == 1000

Undefined == <<"undefined">>
Null == <<"null">>
TypeError == <<"TypeError">>

WhiteSpace == {" ", "\t", "\n"}
Digits == {"0", "1", "2", "3", "4", "5", "6", "7", "8", "9"}

\* JavaScript truthiness of a string, undefined or null.
Truthy(v) == v # Undefined /\ v # Null /\ v # <<>>

RECURSIVE TrimStart(_)
TrimStart(s) ==
  IF s # <<>> /\ Head(s) \in WhiteSpace THEN TrimStart(Tail(s)) ELSE s

RECURSIVE TrimEnd(_)
TrimEnd(s) ==
  IF s # <<>> /\ s[Len(s)] \in WhiteSpace
  THEN TrimEnd(SubSeq(s, 1, Len(s) - 1))
  ELSE s

\* String.prototype.trim
Trim(s) == TrimEnd(TrimStart(s))

IsSeparator(c) == c = "-" \/ c \in WhiteSpace

IsKept(c) == ~IsSeparator(c)

normalizeISBN(isbn) ==
  IF ~Truthy(isbn) THEN Null ELSE SelectSeq(isbn, IsKept)

\* parseInt of one character: its value, or -1 for NaN.
parseIntChar(c) ==
  CASE c = "0" -> 0 [] c = "1" -> 1 [] c = "2" -> 2 [] c = "3" -> 3
    [] c = "4" -> 4 [] c = "5" -> 5 [] c = "6" -> 6 [] c = "7" -> 7
    [] c = "8" -> 8 [] c = "9" -> 9 [] OTHER -> -1

\* The sum with the weights 1 to 9 instead of 10 down to 2.
RECURSIVE WeightedSumAscending(_, _)
WeightedSumAscending(isbn10, n) ==
  IF n = 0 THEN 0
  ELSE WeightedSumAscending(isbn10, n - 1) + parseIntChar(isbn10[n]) * n

RECURSIVE WeightedSum(_, _)
WeightedSum(isbn10, n) ==
  IF n = 0 THEN 0
  ELSE WeightedSum(isbn10, n - 1) + parseIntChar(isbn10[n]) * (10 - (n - 1))

DigitChar(d) ==
  CASE d = 0 -> "0" [] d = 1 -> "1" [] d = 2 -> "2" [] d = 3 -> "3"
    [] d = 4 -> "4" [] d = 5 -> "5" [] d = 6 -> "6" [] d = 7 -> "7"
    [] d = 8 -> "8" [] d = 9 -> "9"

\* The conversion without line 50's 'X': a check value of 10 is written
\* as the digit 0.
convertISBN13ToISBN10WithoutX(isbn13) ==
  IF ~Truthy(isbn13) \/ Len(isbn13) # 13 THEN Null
  ELSE LET isbn10 == SubSeq(isbn13, 4, 12)
           sum == WeightedSum(isbn10, 9)
           checkDigit == (11 - (sum % 11)) % 11
       IN  IF \E k \in 1..9 : isbn10[k] \notin Digits
           THEN isbn10 \o <<"N", "a", "N">>
           ELSE isbn10 \o <<DigitChar(checkDigit % 10)>>

convertISBN13ToISBN10(isbn13) ==
  IF ~Truthy(isbn13) \/ Len(isbn13) # 13 THEN Null
  ELSE LET isbn10 == SubSeq(isbn13, 4, 12)
           sum == WeightedSum(isbn10, 9)
           checkDigit == (11 - (sum % 11)) % 11
       IN  IF \E k \in 1..9 : isbn10[k] \notin Digits
           THEN isbn10 \o <<"N", "a", "N">>
           ELSE isbn10 \o (IF checkDigit = 10 THEN <<"X">>
                           ELSE <<DigitChar(checkDigit)>>)

(***************************************************************************)
(* The service's response.  A JSON value that is not a string is a record  *)
(* tagged with its type: "null", "undefined" (a missing property),         *)
(* "number", "array" (with its elems) or "object" (with its properties).   *)
(***************************************************************************)
HttpPrefix == <<"h", "t", "t", "p", ":">>
HttpsPrefix == <<"h", "t", "t", "p", "s", ":">>
ZoomParam == <<"&", "z", "o", "o", "m", "=">>

\* thumbnail.replace(/^http:/, 'https:')
ReplaceScheme(s) ==
  IF Len(s) >= Len(HttpPrefix) /\ SubSeq(s, 1, Len(HttpPrefix)) = HttpPrefix
  THEN HttpsPrefix \o SubSeq(s, Len(HttpPrefix) + 1, Len(s))
  ELSE s

\* /&zoom=\d+/ matches at position p: "&zoom=" and at least one digit.
ZoomAt(s, p) ==
  /\ p + Len(ZoomParam) <= Len(s)
  /\ SubSeq(s, p, p + Len(ZoomParam) - 1) = ZoomParam
  /\ s[p + Len(ZoomParam)] \in Digits

\* The last position of the greedy run of digits that starts at position p.
RECURSIVE DigitsEnd(_, _)
DigitsEnd(s, p) ==
  IF p < Len(s) /\ s[p + 1] \in Digits THEN DigitsEnd(s, p + 1) ELSE p

\* s.replace(/&zoom=\d+/, ''): the first match only (the regex has no g flag).
RemoveZoom(s) ==
  IF \E p \in 1..Len(s) : ZoomAt(s, p)
  THEN LET p == CHOOSE q \in 1..Len(s) :
                  ZoomAt(s, q) /\ \A r \in 1..(q - 1) : ~ZoomAt(s, r)
           e == DigitsEnd(s, p + Len(ZoomParam))
       IN  SubSeq(s, 1, p - 1) \o SubSeq(s, e + 1, Len(s))
  ELSE s

NormalizeUrl(thumbnail) == RemoveZoom(ReplaceScheme(thumbnail))

\* a || b for strings and undefined
Or(a, b) == IF Truthy(a) THEN a ELSE b

\* imageLinks.thumbnail || imageLinks.smallThumbnail || imageLinks.medium ||
\* imageLinks.large || imageLinks.extraLarge
PreferredLink(imageLinks) ==
  Or(imageLinks.thumbnail,
     Or(imageLinks.smallThumbnail,
        Or(imageLinks.medium, Or(imageLinks.large, imageLinks.extraLarge))))

\* volumeInfo?.imageLinks of an item that is an object
ImageLinksOf(item) ==
  IF item.volumeInfo.type = "object"
  THEN item.volumeInfo.imageLinks
  ELSE [type |-> "undefined"]

\* The for loop of extractThumbnail from item k on: the normalized link of
\* the first item that has one, Null past the last item, TypeError when
\* item.volumeInfo is read of an item that is null.
RECURSIVE ScanItems(_, _)
ScanItems(elems, k) ==
  IF k > Len(elems) THEN Null
  ELSE IF elems[k].type = "null" THEN TypeError
  ELSE LET imageLinks == ImageLinksOf(elems[k])
       IN  IF imageLinks.type = "object" /\ Truthy(PreferredLink(imageLinks))
           THEN NormalizeUrl(PreferredLink(imageLinks))
           ELSE ScanItems(elems, k + 1)

\* extractThumbnail(data) for data that is an object.  for...of over items
\* that are not iterable throws a TypeError.
extractThumbnail(data) ==
  IF data.items.type \in {"undefined", "null"} THEN Null
  ELSE IF data.items.type = "array" /\ Len(data.items.elems) = 0 THEN Null
  ELSE IF data.items.type # "array" THEN TypeError
  ELSE ScanItems(data.items.elems, 1)

NullData == [type |-> "null"]

\* searchGoogleBooks(query) without its sleep: the parsed body of a 2xx
\* response, null (NullData) for a rejected fetch, a non-2xx status or a
\* body that does not parse.
searchGoogleBooks(response) ==
  IF response.fetch = "rejects" THEN NullData
  ELSE IF response.status < 200 \/ response.status > 299 THEN NullData
  ELSE IF ~response.parses THEN NullData
  ELSE response.data

\* The response carries a usable image: a 2xx status and a body from which
\* extractThumbnail returns a non-empty URL.
HasImage(response) ==
  /\ response.fetch = "resolves"
  /\ response.status \in 200..299
  /\ response.parses
  /\ response.data.type = "object"
  /\ extractThumbnail(response.data) \notin {Null, TypeError, <<>>}

\* The response makes searchGoogleBooks sleep before it returns null.
IsRateLimited(response) ==
  response.fetch = "resolves" /\ response.status = 429

\* What one strategy of fetchThumbnailFromGoogleBooks makes of the data:
\* if (data) { thumbnail = extractThumbnail(data) }.
StrategyResult(data) ==
  IF data.type = "null" THEN Null ELSE extractThumbnail(data)

(***************************************************************************)
(* The records, files and responses the model explores.                    *)
(***************************************************************************)
Isbn13Hyphenated ==
  <<"9", "7", "8", "-", "0", "3", "1", "6", "7", "6", "9", "4", "8", "8">>
IsbnShort == <<"9", "7", "8", "-", "0">>
CoverUrl == <<"h", "t", "t", "p", "s", ":", "/", "/", "c">>
ZoomUrl ==
  <<"h", "t", "t", "p", ":", "/", "/", "a", "&", "z", "o", "o", "m", "=", "1">>
PlainUrl == <<"h", "t", "t", "p", "s", ":", "/", "/", "b">>

\* What the script stores for ZoomUrl.
ZoomUrlStored == <<"h", "t", "t", "p", "s", ":", "/", "/", "a">>

\* Book records: the properties the script reads (an absent property is
\* Undefined), and one it never touches.
SampleBooks ==
  { [title |-> <<"T">>, author |-> <<"A">>, isbn13 |-> Isbn13Hyphenated,
     thumbnail |-> <<>>, category |-> <<"h">>],
    [title |-> <<"U">>, author |-> <<>>, isbn13 |-> IsbnShort,
     thumbnail |-> Undefined, category |-> <<>>],
    [title |-> <<>>, author |-> <<"A">>, isbn13 |-> <<" ">>,
     thumbnail |-> <<>>, category |-> <<"h">>],
    [title |-> <<"V">>, author |-> <<"B">>, isbn13 |-> Undefined,
     thumbnail |-> <<" ">>, category |-> <<"w">>],
    [title |-> <<"W">>, author |-> <<"A">>, isbn13 |-> Isbn13Hyphenated,
     thumbnail |-> CoverUrl, category |-> <<>>],
    [title |-> Undefined, author |-> <<>>, isbn13 |-> <<>>,
     thumbnail |-> <<>>, category |-> <<>>] }

Collections == UNION {[1..n -> SampleBooks] : n \in 0..MaxBooks}

\* A file: whether it can be read and parsed as JSON, how its text is laid
\* out ("pretty2" is JSON.stringify(v, null, 2)), and the value it holds.
Unreadable == [ok |-> FALSE, fmt |-> "none", data |-> <<>>]

InitialFiles ==
  {Unreadable} \cup
  {[ok |-> TRUE, fmt |-> f, data |-> d] :
     f \in {"pretty2", "other"}, d \in Collections}

\* JSON.parse(readFileSync(path, 'utf-8')) of a file that can be read
Parse(f) == f.data

\* A write of the records that have a thumbnail only.
StringifyResolved(value) ==
  [ok |-> TRUE, fmt |-> "pretty2",
   data |-> SelectSeq(value, LAMBDA book : Truthy(book.thumbnail))]

\* The file that writeFileSync(path, JSON.stringify(value, null, 2)) leaves
Stringify(value) == [ok |-> TRUE, fmt |-> "pretty2", data |-> value]

NoLinks ==
  [type |-> "object", thumbnail |-> Undefined, smallThumbnail |-> Undefined,
   medium |-> Undefined, large |-> Undefined, extraLarge |-> Undefined]

ItemWith(imageLinks) ==
  [type |-> "object",
   volumeInfo |-> [type |-> "object", imageLinks |-> imageLinks]]

ItemNoVolumeInfo == [type |-> "object", volumeInfo |-> [type |-> "undefined"]]
ItemNoImageLinks == ItemWith([type |-> "undefined"])
ItemEmptyLinks == ItemWith([NoLinks EXCEPT !.thumbnail = <<>>])
ItemZoom == ItemWith([NoLinks EXCEPT !.thumbnail = ZoomUrl])
ItemSmall ==
  ItemWith([NoLinks EXCEPT !.thumbnail = <<>>, !.smallThumbnail = PlainUrl,
                           !.large = ZoomUrl])
ItemNull == [type |-> "null"]

Ok(items) ==
  [fetch |-> "resolves", status |-> 200, parses |-> TRUE,
   data |-> [type |-> "object", items |-> items]]

Status(n) ==
  [fetch |-> "resolves", status |-> n, parses |-> TRUE, data |-> NullData]

Array(elems) == [type |-> "array", elems |-> elems]

Responses ==
  { [fetch |-> "rejects", status |-> 0, parses |-> FALSE, data |-> NullData],
    Status(429), Status(500), Status(404),
    [fetch |-> "resolves", status |-> 200, parses |-> FALSE,
     data |-> NullData],
    [fetch |-> "resolves", status |-> 200, parses |-> TRUE,
     data |-> NullData],
    Ok([type |-> "undefined"]),
    Ok(Array(<<>>)),
    Ok(Array(<<ItemNoVolumeInfo, ItemNoImageLinks, ItemEmptyLinks>>)),
    Ok(Array(<<ItemZoom, ItemSmall>>)),
    Ok(Array(<<ItemNoImageLinks, ItemSmall, ItemZoom>>)),
    Ok(Array(<<ItemNull>>)),
    Ok([type |-> "number"]) }

(***************************************************************************)
(* The state of a run.                                                     *)
(***************************************************************************)
VARIABLES
  file,        \* src/data/books.json
  backup,      \* src/data/books.json.backup
  pc,          \* where main is: "read", "backup", "loop", "await",
               \* "cooldown", "sleep", "exit"
  exitCode,    \* the process's exit status, once pc = "exit"
  books,       \* main's books
  i,           \* main's loop index (from 0)
  updated, skipped, failed,   \* main's counters
  strategy,    \* the strategy (1..4) whose request is outstanding
  run,         \* which run of the script this is
  file0,       \* the data file when this run started
  readBooks,   \* the collection as this run read it
  backupState, \* "none", "ok" or "failed": this run's backup write
  writes,      \* this run's writeFileSync calls on the data file
  calls,       \* per record, the strategies whose request this run issued
  lastCall,    \* the last request issued: its query, whether it was the
               \* run's first, the milliseconds slept since the one before
               \* it, and whether the one before it was answered 429
  limited,     \* the last request issued was answered 429
  elapsed,     \* milliseconds slept since the last request was issued
  yielded,     \* per record, what fetchThumbnailFromGoogleBooks returned
  failure,     \* what ended the run with status 1: "read", "write",
               \* "uncaught" (an exception reached main().catch); or "none"
  offered,     \* per record, the first response of this run that carried
               \* a usable image: its strategy (0: none yet) and the image
  resolved1,   \* the records the first run assigned a thumbnail
  csvText,     \* convert-sheet-to-json: the CSV it was given
  converted,   \* convert-sheet-to-json: main's books, what parseCSV returned
  cpc,         \* convert-sheet-to-json: "idle", "parse" or "done"
  isbnArg,     \* the argument of a call of convertISBN13ToISBN10
  isbnRet,     \* what that call returned; Pending before it returns
  extractArg,  \* the argument of a call of extractThumbnail
  extractRet   \* what that call returned or threw; Pending before

\* fetch-thumbnails.mjs
resolverVars ==
  <<file, backup, pc, exitCode, books, i, updated, skipped, failed, strategy,
    run, file0, readBooks, backupState, writes, calls, lastCall, limited,
    elapsed, yielded, failure, offered, resolved1>>

\* convert-sheet-to-json.mjs
converterVars == <<csvText, converted, cpc>>

isbnVars == <<isbnArg, isbnRet>>

extractVars == <<extractArg, extractRet>>

vars == <<resolverVars, converterVars, isbnVars, extractVars>>

Pending == <<"pending">>

NoCsv == [header |-> <<>>, lines |-> <<>>]

\* The converter is not running and convertISBN13ToISBN10 is not called on
\* its own.
ResolverOnly ==
  /\ csvText = NoCsv
  /\ converted = <<>>
  /\ cpc = "idle"
  /\ isbnArg = <<>>
  /\ isbnRet = Pending
  /\ extractArg = NullData
  /\ extractRet = Pending

NoOffer == [strategy |-> 0, thumbnail |-> Null]

NoCall == [first |-> TRUE, gap |-> 0, after429 |-> FALSE, query |-> <<>>]

Min(a, b) == IF a <= b THEN a ELSE b

\* main, lines 152-178, before anything is read
StartOfRun ==
  /\ pc = "read"
  /\ exitCode = 0
  /\ books = <<>>
  /\ i = 0
  /\ updated = 0
  /\ skipped = 0
  /\ failed = 0
  /\ strategy = 0
  /\ readBooks = <<>>
  /\ backupState = "none"
  /\ writes = 0
  /\ calls = <<>>
  /\ lastCall = NoCall
  /\ limited = FALSE
  /\ elapsed = 0
  /\ yielded = <<>>
  /\ failure = "none"
  /\ offered = <<>>

Init ==
  /\ file \in InitialFiles
  /\ backup = Unreadable
  /\ run = 1
  /\ file0 = file
  /\ resolved1 = {}
  /\ StartOfRun
  /\ ResolverOnly

(***************************************************************************)
(* fetchThumbnailFromGoogleBooks: the cascade of strategies.               *)
(***************************************************************************)
\* The condition under which the code issues strategy s's request.
\* The cascade without the length test of line 116: strategy 2 is tried
\* for every ISBN.
ApplicableLengthUnchecked(book, s) ==
  CASE s = 1 -> Truthy(book.isbn13) /\ Truthy(normalizeISBN(book.isbn13))
    [] s = 2 -> Truthy(book.isbn13) /\ Truthy(normalizeISBN(book.isbn13))
    [] s = 3 -> Truthy(book.title) /\ Truthy(book.author)
    [] s = 4 -> Truthy(book.title)
    [] OTHER -> FALSE

\* The cascade without its if (isbn13): strategy 1 is always tried.
ApplicableIsbnUnchecked(book, s) ==
  CASE s = 1 -> TRUE
    [] s = 2 -> /\ Truthy(book.isbn13)
                /\ Truthy(normalizeISBN(book.isbn13))
                /\ Len(normalizeISBN(book.isbn13)) = 13
                /\ Truthy(convertISBN13ToISBN10(normalizeISBN(book.isbn13)))
    [] s = 3 -> Truthy(book.title) /\ Truthy(book.author)
    [] s = 4 -> Truthy(book.title)
    [] OTHER -> FALSE

\* The cascade with strategy 4 outside its if (title): it is always tried.
ApplicableTitleUnchecked(book, s) ==
  CASE s = 1 -> Truthy(book.isbn13) /\ Truthy(normalizeISBN(book.isbn13))
    [] s = 2 -> /\ Truthy(book.isbn13)
                /\ Truthy(normalizeISBN(book.isbn13))
                /\ Len(normalizeISBN(book.isbn13)) = 13
                /\ Truthy(convertISBN13ToISBN10(normalizeISBN(book.isbn13)))
    [] s = 3 -> Truthy(book.title) /\ Truthy(book.author)
    [] s = 4 -> TRUE
    [] OTHER -> FALSE

Applicable(book, s) ==
  CASE s = 1 -> Truthy(book.isbn13) /\ Truthy(normalizeISBN(book.isbn13))
    [] s = 2 -> /\ Truthy(book.isbn13)
                /\ Truthy(normalizeISBN(book.isbn13))
                /\ Len(normalizeISBN(book.isbn13)) = 13
                /\ Truthy(convertISBN13ToISBN10(normalizeISBN(book.isbn13)))
    [] s = 3 -> Truthy(book.title) /\ Truthy(book.author)
    [] s = 4 -> Truthy(book.title)
    [] OTHER -> FALSE

\* The first strategy from `from` on whose request the code issues; 0: none.
NextStrategy(book, from) ==
  IF \E s \in from..4 : Applicable(book, s)
  THEN CHOOSE s \in from..4 :
         Applicable(book, s) /\ \A t \in from..(s - 1) : ~Applicable(book, t)
  ELSE 0

\* The query string of strategy s.
Query(book, s) ==
  CASE s = 1 -> <<"isbn:">> \o normalizeISBN(book.isbn13)
    [] s = 2 -> <<"isbn:">> \o convertISBN13ToISBN10(normalizeISBN(book.isbn13))
    [] s = 3 -> <<"intitle:\"">> \o book.title \o <<"\"+inauthor:\"">>
                  \o book.author \o <<"\"">>
    [] s = 4 -> <<"intitle:\"">> \o book.title \o <<"\"">>

\* The loop without its skip: every record is fetched again.
hasThumbnailNever(book) == FALSE

\* Line 182 without its trim: any non-empty thumbnail is skipped.
hasThumbnailUntrimmed(book) == Truthy(book.thumbnail)

\* main, line 182: book.thumbnail && book.thumbnail.trim() !== ''
hasThumbnail(book) == Truthy(book.thumbnail) /\ Trim(book.thumbnail) # <<>>

\* The loop with its bound off by one: it ends before the last record.
LoopDoneEarly(index, length) == index >= length - 1

\* main, line 180: the for loop ends when i < books.length fails.
LoopDone(index, length) == ~(index < length)

NoCallYet == \A k \in DOMAIN calls : calls[k] = <<>>

\* The loop without lines 209-211: no sleep after any record.
SleepsAfterNone(index, length) == FALSE

\* main, line 209: the sleep after a record is skipped after the last one.
SleepsAfter(index, length) == index < length - 1

\* The code after the fetch with an i++ of its own before the sleep: the
\* record after a fetched one is passed over.
AfterFetchSkipsRecord(thumbnail) ==
  /\ IF Truthy(thumbnail)
     THEN /\ books' = [books EXCEPT ![i + 1].thumbnail = thumbnail]
          /\ updated' = updated + 1
          /\ failed' = failed
     ELSE /\ failed' = failed + 1
          /\ UNCHANGED <<books, updated>>
  /\ yielded' = [yielded EXCEPT ![i + 1] = thumbnail]
  /\ strategy' = 0
  /\ IF SleepsAfter(i, Len(books))
     THEN pc' = "sleep" /\ i' = i + 1
     ELSE pc' = "loop" /\ i' = i + 1

\* The code after the fetch with line 195 outside its if: the thumbnail is
\* assigned whatever the cascade returned, null included.
AfterFetchNullStored(thumbnail) ==
  /\ IF Truthy(thumbnail)
     THEN updated' = updated + 1 /\ failed' = failed
     ELSE failed' = failed + 1 /\ updated' = updated
  /\ books' = [books EXCEPT ![i + 1].thumbnail = thumbnail]
  /\ yielded' = [yielded EXCEPT ![i + 1] = thumbnail]
  /\ strategy' = 0
  /\ IF SleepsAfter(i, Len(books))
     THEN pc' = "sleep" /\ i' = i
     ELSE pc' = "loop" /\ i' = i + 1

\* The code after the fetch without line 195: the found thumbnail is
\* counted and never assigned.
AfterFetchNotStored(thumbnail) ==
  /\ IF Truthy(thumbnail)
     THEN updated' = updated + 1 /\ failed' = failed
     ELSE failed' = failed + 1 /\ updated' = updated
  /\ books' = books
  /\ yielded' = [yielded EXCEPT ![i + 1] = thumbnail]
  /\ strategy' = 0
  /\ IF SleepsAfter(i, Len(books))
     THEN pc' = "sleep" /\ i' = i
     ELSE pc' = "loop" /\ i' = i + 1

\* main, lines 194-211: fetchThumbnailFromGoogleBooks returned `thumbnail`.
AfterFetch(thumbnail) ==
  /\ IF Truthy(thumbnail)
     THEN /\ books' = [books EXCEPT ![i + 1].thumbnail = thumbnail]
          /\ updated' = updated + 1
          /\ failed' = failed
     ELSE /\ failed' = failed + 1
          /\ UNCHANGED <<books, updated>>
  /\ yielded' = [yielded EXCEPT ![i + 1] = thumbnail]
  /\ strategy' = 0
  /\ IF SleepsAfter(i, Len(books))
     THEN pc' = "sleep" /\ i' = i
     ELSE pc' = "loop" /\ i' = i + 1

\* fetchThumbnailFromGoogleBooks from strategy `from` on, `slept` ms after
\* the last request: it issues the next applicable request and awaits the
\* response, or returns null.
Cascade(from, slept) ==
  LET s == NextStrategy(books[i + 1], from)
  IN  IF s # 0
      THEN /\ pc' = "await"
           /\ strategy' = s
           /\ calls' = [calls EXCEPT ![i + 1] = Append(@, s)]
           /\ lastCall' = [first |-> NoCallYet, gap |-> slept,
                           after429 |-> limited,
                           query |-> Query(books[i + 1], s)]
           /\ limited' = FALSE
           /\ elapsed' = 0
           /\ UNCHANGED <<books, i, updated, failed, yielded>>
      ELSE /\ UNCHANGED <<calls, lastCall, limited>>
           /\ elapsed' = slept
           /\ AfterFetch(Null)

\* The cascade without its early return: every strategy falls through.
ReturnsNever(thumbnail) == FALSE

\* A strategy's thumbnail decides the cascade: if (thumbnail) return it.
Returns(thumbnail) == Truthy(thumbnail)

(***************************************************************************)
(* main, one action per synchronous stretch of the code.                   *)
(***************************************************************************)
\* lines 158-166: read and parse books.json, or exit with status 1.
Read ==
  /\ UNCHANGED <<converterVars, isbnVars, extractVars>>
  /\ pc = "read"
  /\ IF file.ok
     THEN /\ books' = Parse(file)
          /\ readBooks' = Parse(file)
          /\ calls' = [k \in 1..Len(Parse(file)) |-> <<>>]
          /\ yielded' = [k \in 1..Len(Parse(file)) |-> Null]
          /\ offered' = [k \in 1..Len(Parse(file)) |-> NoOffer]
          /\ pc' = "backup"
          /\ UNCHANGED <<exitCode, failure>>
     ELSE /\ pc' = "exit"
          /\ exitCode' = 1
          /\ failure' = "read"
          /\ UNCHANGED <<books, readBooks, calls, yielded, offered>>
  /\ UNCHANGED <<file, backup, i, updated, skipped, failed, strategy, run,
                 file0, backupState, writes, lastCall, limited, elapsed,
                 resolved1>>

\* main with a backup write that reports success and writes nothing.
BackupStale(ioOk) ==
  /\ UNCHANGED <<converterVars, isbnVars, extractVars>>
  /\ pc = "backup"
  /\ backup' = backup
  /\ backupState' = IF ioOk THEN "ok" ELSE "failed"
  /\ pc' = "loop"
  /\ UNCHANGED <<file, exitCode, books, i, updated, skipped, failed, strategy,
                 run, file0, readBooks, writes, calls, lastCall, limited,
                 elapsed, yielded, failure, offered, resolved1>>

\* main without lines 168-174: no backup is written.
BackupSkipped(ioOk) ==
  /\ UNCHANGED <<converterVars, isbnVars, extractVars>>
  /\ pc = "backup"
  /\ pc' = "loop"
  /\ UNCHANGED <<file, backup, exitCode, books, i, updated, skipped, failed,
                 strategy, run, file0, readBooks, backupState, writes, calls,
                 lastCall, limited, elapsed, yielded, failure, offered,
                 resolved1>>

\* lines 168-174: write the backup; a failure is only warned about.
Backup(ioOk) ==
  /\ UNCHANGED <<converterVars, isbnVars, extractVars>>
  /\ pc = "backup"
  /\ IF ioOk
     THEN backup' = Stringify(books) /\ backupState' = "ok"
     ELSE backup' \in {backup, Unreadable} /\ backupState' = "failed"
  /\ pc' = "loop"
  /\ UNCHANGED <<file, exitCode, books, i, updated, skipped, failed, strategy,
                 run, file0, readBooks, writes, calls, lastCall, limited,
                 elapsed, yielded, failure, offered, resolved1>>

\* lines 180-192: the loop's head for record i: skip it, or start its fetch.
Process ==
  /\ UNCHANGED <<converterVars, isbnVars, extractVars>>
  /\ pc = "loop"
  /\ ~LoopDone(i, Len(books))
  /\ IF hasThumbnail(books[i + 1])
     THEN /\ skipped' = skipped + 1
          /\ i' = i + 1
          /\ UNCHANGED <<pc, books, updated, failed, strategy, calls,
                         lastCall, limited, elapsed, yielded>>
     ELSE /\ Cascade(1, elapsed)
          /\ skipped' = skipped
  /\ UNCHANGED <<file, backup, exitCode, run, file0, readBooks, backupState,
                 writes, failure, offered, resolved1>>

\* The outstanding request's response arrives: searchGoogleBooks lines
\* 84-99, then the strategy's lines in fetchThumbnailFromGoogleBooks.  A
\* TypeError of extractThumbnail is caught by nothing before main().catch.
Respond(response) ==
  /\ UNCHANGED <<converterVars, isbnVars, extractVars>>
  /\ pc = "await"
  /\ offered' = IF HasImage(response) /\ offered[i + 1] = NoOffer
                THEN [offered EXCEPT ![i + 1] =
                        [strategy |-> strategy,
                         thumbnail |-> StrategyResult(searchGoogleBooks(response))]]
                ELSE offered
  /\ IF IsRateLimited(response)
     THEN /\ pc' = "cooldown"
          /\ limited' = TRUE
          /\ UNCHANGED <<exitCode, books, i, updated, failed, strategy, calls,
                         lastCall, elapsed, yielded, failure>>
     ELSE LET thumbnail == StrategyResult(searchGoogleBooks(response))
          IN  IF thumbnail = TypeError
              THEN /\ pc' = "exit"
                   /\ exitCode' = 1
                   /\ failure' = "uncaught"
                   /\ UNCHANGED <<books, i, updated, failed, strategy, calls,
                                  lastCall, limited, elapsed, yielded>>
              ELSE IF Returns(thumbnail)
              THEN /\ AfterFetch(thumbnail)
                   /\ UNCHANGED <<exitCode, calls, lastCall, limited, elapsed,
                                  failure>>
              ELSE /\ Cascade(strategy + 1, elapsed)
                   /\ UNCHANGED <<exitCode, failure>>
  /\ UNCHANGED <<file, backup, skipped, run, file0, readBooks, backupState,
                 writes, resolved1>>

\* searchGoogleBooks without line 88: a 429 is answered with null at once.
CooldownNone ==
  /\ UNCHANGED <<converterVars, isbnVars, extractVars>>
  /\ pc = "cooldown"
  /\ Cascade(strategy + 1, elapsed)
  /\ UNCHANGED <<file, backup, exitCode, skipped, run, file0, readBooks,
                 backupState, writes, failure, offered, resolved1>>

\* searchGoogleBooks with one retry after a 429: the sleep ends and the same
\* query is sent a second time before the cascade goes on.
CooldownRetry ==
  /\ UNCHANGED <<converterVars, isbnVars, extractVars>>
  /\ pc = "cooldown"
  /\ IF Len(SelectSeq(calls[i + 1], LAMBDA s : s = strategy)) = 1
     THEN Cascade(strategy, Min(elapsed + CooldownDelay, MaxElapsed))
     ELSE Cascade(strategy + 1, Min(elapsed + CooldownDelay, MaxElapsed))
  /\ UNCHANGED <<file, backup, exitCode, skipped, run, file0, readBooks,
                 backupState, writes, failure, offered, resolved1>>

\* searchGoogleBooks lines 87-91: the sleep after a 429 ends, it returns
\* null, and the cascade goes on.
Cooldown ==
  /\ UNCHANGED <<converterVars, isbnVars, extractVars>>
  /\ pc = "cooldown"
  /\ Cascade(strategy + 1, Min(elapsed + CooldownDelay, MaxElapsed))
  /\ UNCHANGED <<file, backup, exitCode, skipped, run, file0, readBooks,
                 backupState, writes, failure, offered, resolved1>>

\* main, lines 209-211: the sleep between records ends.
Sleep ==
  /\ UNCHANGED <<converterVars, isbnVars, extractVars>>
  /\ pc = "sleep"
  /\ elapsed' = Min(elapsed + RateLimitDelay, MaxElapsed)
  /\ i' = i + 1
  /\ pc' = "loop"
  /\ UNCHANGED <<file, backup, exitCode, books, updated, skipped, failed,
                 strategy, run, file0, readBooks, backupState, writes, calls,
                 lastCall, limited, yielded, failure, offered, resolved1>>

\* main, lines 214-225: the loop is over; overwrite books.json.  A failed
\* write may leave the file as it was or truncated.
Write(ioOk) ==
  /\ UNCHANGED <<converterVars, isbnVars, extractVars>>
  /\ pc = "loop"
  /\ LoopDone(i, Len(books))
  /\ writes' = writes + 1
  /\ IF ioOk
     THEN file' = Stringify(books) /\ exitCode' = 0 /\ failure' = failure
     ELSE /\ file' \in {file, Unreadable}
          /\ exitCode' = 1
          /\ failure' = "write"
  /\ pc' = "exit"
  /\ UNCHANGED <<backup, books, i, updated, skipped, failed, strategy, run,
                 file0, readBooks, backupState, calls, lastCall, limited,
                 elapsed, yielded, offered, resolved1>>

\* The operator runs the script again on the file the previous run wrote.
RunAgain ==
  /\ UNCHANGED <<converterVars, isbnVars, extractVars>>
  /\ pc = "exit"
  /\ exitCode = 0
  /\ run = 1
  /\ run' = run + 1
  /\ file0' = file
  /\ resolved1' = {k \in DOMAIN yielded : Truthy(yielded[k])}
  /\ pc' = "read"
  /\ exitCode' = 0
  /\ books' = <<>>
  /\ i' = 0
  /\ updated' = 0
  /\ skipped' = 0
  /\ failed' = 0
  /\ strategy' = 0
  /\ readBooks' = <<>>
  /\ backupState' = "none"
  /\ writes' = 0
  /\ calls' = <<>>
  /\ lastCall' = NoCall
  /\ limited' = FALSE
  /\ elapsed' = 0
  /\ yielded' = <<>>
  /\ failure' = "none"
  /\ offered' = <<>>
  /\ UNCHANGED <<file, backup>>

Next ==
  \/ Read
  \/ \E ioOk \in BOOLEAN : Backup(ioOk)
  \/ Process
  \/ \E response \in Responses : Respond(response)
  \/ Cooldown
  \/ Sleep
  \/ \E ioOk \in BOOLEAN : Write(ioOk)

Spec == Init /\ [][Next]_vars

\* A run in which every awaited operation settles: Node runs the
\* continuation of each await of main (file I/O, fetch, response.json(),
\* setTimeout) once its promise is resolved, and the run is one chain of
\* such continuations.
SpecFair == Spec /\ WF_vars(Next)

\* Two runs in succession.
NextTwoRuns == Next \/ RunAgain

SpecTwoRuns == Init /\ [][NextTwoRuns]_vars

(***************************************************************************)
(* scripts/convert-sheet-to-json.mjs.  Strings are sequences of            *)
(* characters.  A JavaScript object is the sequence of its properties in   *)
(* insertion order, each a key and a value; a value is tagged with its     *)
(* type: "string" (with its characters s), "number" (with its integer n),  *)
(* "NaN" or "undefined".                                                   *)
(***************************************************************************)
StringValue(s) == [type |-> "string", s |-> s]
NumberValue(n) == [type |-> "number", n |-> n]
NaN == [type |-> "NaN"]
UndefinedValue == [type |-> "undefined"]

\* JavaScript truthiness of a value
TruthyValue(v) ==
  CASE v.type = "string" -> v.s # <<>>
    [] v.type = "number" -> v.n # 0
    [] OTHER -> FALSE

Has(object, key) == \E k \in DOMAIN object : object[k].key = key

\* object[key]
Get(object, key) ==
  IF Has(object, key)
  THEN object[CHOOSE k \in DOMAIN object : object[k].key = key].value
  ELSE UndefinedValue

\* object[key] = value: a new property comes last, a known one keeps its
\* place.
Put(object, key, value) ==
  IF Has(object, key)
  THEN [k \in DOMAIN object |->
          IF object[k].key = key THEN [key |-> key, value |-> value]
          ELSE object[k]]
  ELSE Append(object, [key |-> key, value |-> value])

\* Object.keys(object)
Keys(object) == [k \in DOMAIN object |-> object[k].key]

UpperCase ==
  <<"A", "B", "C", "D", "E", "F", "G", "H", "I", "J", "K", "L", "M",
    "N", "O", "P", "Q", "R", "S", "T", "U", "V", "W", "X", "Y", "Z">>

LowerCase ==
  <<"a", "b", "c", "d", "e", "f", "g", "h", "i", "j", "k", "l", "m",
    "n", "o", "p", "q", "r", "s", "t", "u", "v", "w", "x", "y", "z">>

LowerChar(c) ==
  IF \E k \in 1..26 : UpperCase[k] = c
  THEN LowerCase[CHOOSE k \in 1..26 : UpperCase[k] = c]
  ELSE c

\* String.prototype.toLowerCase
toLowerCase(s) == [k \in DOMAIN s |-> LowerChar(s[k])]

\* line 28: (header) => header.trim().toLowerCase()
transformHeader(header) == toLowerCase(Trim(header))

\* line 29: (value) => value.trim()
transform(value) == Trim(value)

\* The value of character c as a digit in `radix`, or -1.
DigitValue(c, radix) ==
  LET lower == LowerChar(c)
      v == CASE parseIntChar(c) # -1 -> parseIntChar(c)
             [] lower = "a" -> 10 [] lower = "b" -> 11 [] lower = "c" -> 12
             [] lower = "d" -> 13 [] lower = "e" -> 14 [] lower = "f" -> 15
             [] OTHER -> -1
  IN  IF v < radix THEN v ELSE -1

\* The value of the longest prefix of s made of digits in `radix`, from
\* `acc`; -1 if acc is -1 and s starts with no digit.
RECURSIVE ParseDigits(_, _, _)
ParseDigits(s, radix, acc) ==
  IF s = <<>> \/ DigitValue(s[1], radix) = -1 THEN acc
  ELSE ParseDigits(Tail(s), radix,
                   (IF acc = -1 THEN 0 ELSE acc * radix)
                     + DigitValue(s[1], radix))

\* parseInt(string), no radix given: leading whitespace is skipped, a sign
\* is read, a 0x prefix selects radix 16, and the longest prefix of digits
\* is the value; NaN if there is none.
parseInt(string) ==
  LET s0 == TrimStart(string)
      signed == s0 # <<>> /\ s0[1] \in {"+", "-"}
      s1 == IF signed THEN Tail(s0) ELSE s0
      hex == Len(s1) >= 2 /\ s1[1] = "0" /\ s1[2] \in {"x", "X"}
      s2 == IF hex THEN SubSeq(s1, 3, Len(s1)) ELSE s1
      n == ParseDigits(s2, IF hex THEN 16 ELSE 10, -1)
  IN  IF n = -1 THEN NaN
      ELSE NumberValue(IF signed /\ s0[1] = "-" THEN 0 - n ELSE n)

\* The canonical field names of Book, as property keys.
F_title == <<"t", "i", "t", "l", "e">>
F_author == <<"a", "u", "t", "h", "o", "r">>
F_firstPublished == <<"f", "i", "r", "s", "t", "P", "u", "b", "l", "i", "s", "h", "e", "d">>
F_category == <<"c", "a", "t", "e", "g", "o", "r", "y">>
F_isbn13 == <<"i", "s", "b", "n", "1", "3">>
F_description == <<"d", "e", "s", "c", "r", "i", "p", "t", "i", "o", "n">>
F_pageCount == <<"p", "a", "g", "e", "C", "o", "u", "n", "t">>
F_publisher == <<"p", "u", "b", "l", "i", "s", "h", "e", "r">>
F_thumbnail == <<"t", "h", "u", "m", "b", "n", "a", "i", "l">>
F_buyLink == <<"b", "u", "y", "L", "i", "n", "k">>

\* lines 37-57, without the entry for pages.
headerMapWithoutPages ==
  <<<<<<"t", "i", "t", "l", "e">>, F_title>>,
    <<<<"a", "u", "t", "h", "o", "r">>, F_author>>,
    <<<<"f", "i", "r", "s", "t", "p", "u", "b", "l", "i", "s", "h", "e", "d">>, F_firstPublished>>,
    <<<<"f", "i", "r", "s", "t", " ", "p", "u", "b", "l", "i", "s", "h", "e", "d">>, F_firstPublished>>,
    <<<<"c", "a", "t", "e", "g", "o", "r", "y">>, F_category>>,
    <<<<"i", "s", "b", "n", "-", "1", "3">>, F_isbn13>>,
    <<<<"i", "s", "b", "n", "1", "3">>, F_isbn13>>,
    <<<<"i", "s", "b", "n">>, F_isbn13>>,
    <<<<"d", "e", "s", "c", "r", "i", "p", "t", "i", "o", "n">>, F_description>>,
    <<<<"p", "a", "g", "e", "c", "o", "u", "n", "t">>, F_pageCount>>,
    <<<<"p", "a", "g", "e", " ", "c", "o", "u", "n", "t">>, F_pageCount>>,
    <<<<"p", "u", "b", "l", "i", "s", "h", "e", "r">>, F_publisher>>,
    <<<<"t", "h", "u", "m", "b", "n", "a", "i", "l">>, F_thumbnail>>,
    <<<<"i", "m", "a", "g", "e">>, F_thumbnail>>,
    <<<<"b", "u", "y", "l", "i", "n", "k">>, F_buyLink>>,
    <<<<"b", "u", "y", " ", "l", "i", "n", "k">>, F_buyLink>>,
    <<<<"l", "i", "n", "k">>, F_buyLink>>,
    <<<<"u", "r", "l">>, F_buyLink>> >>

\* lines 37-57: each key and the field it names, in the order written.
headerMap ==
  <<<<<<"t", "i", "t", "l", "e">>, F_title>>,
    <<<<"a", "u", "t", "h", "o", "r">>, F_author>>,
    <<<<"f", "i", "r", "s", "t", "p", "u", "b", "l", "i", "s", "h", "e", "d">>, F_firstPublished>>,
    <<<<"f", "i", "r", "s", "t", " ", "p", "u", "b", "l", "i", "s", "h", "e", "d">>, F_firstPublished>>,
    <<<<"c", "a", "t", "e", "g", "o", "r", "y">>, F_category>>,
    <<<<"i", "s", "b", "n", "-", "1", "3">>, F_isbn13>>,
    <<<<"i", "s", "b", "n", "1", "3">>, F_isbn13>>,
    <<<<"i", "s", "b", "n">>, F_isbn13>>,
    <<<<"d", "e", "s", "c", "r", "i", "p", "t", "i", "o", "n">>, F_description>>,
    <<<<"p", "a", "g", "e", "c", "o", "u", "n", "t">>, F_pageCount>>,
    <<<<"p", "a", "g", "e", " ", "c", "o", "u", "n", "t">>, F_pageCount>>,
    <<<<"p", "a", "g", "e", "s">>, F_pageCount>>,
    <<<<"p", "u", "b", "l", "i", "s", "h", "e", "r">>, F_publisher>>,
    <<<<"t", "h", "u", "m", "b", "n", "a", "i", "l">>, F_thumbnail>>,
    <<<<"i", "m", "a", "g", "e">>, F_thumbnail>>,
    <<<<"b", "u", "y", "l", "i", "n", "k">>, F_buyLink>>,
    <<<<"b", "u", "y", " ", "l", "i", "n", "k">>, F_buyLink>>,
    <<<<"l", "i", "n", "k">>, F_buyLink>>,
    <<<<"u", "r", "l">>, F_buyLink>> >>

\* line 65: headerMap[csvKey] || csvKey
MappedKey(csvKey) ==
  IF \E e \in DOMAIN headerMap : headerMap[e][1] = csvKey
  THEN headerMap[CHOOSE e \in DOMAIN headerMap : headerMap[e][1] = csvKey][2]
  ELSE csvKey

\* skipEmptyLines: true drops a line that is one empty field.
IsEmptyLine(line) == line = << <<>> >>

\* The object Papa.parse builds of a line's first n fields under
\* header: true: each field, transformed, under its transformed header; a
\* line shorter than the header row gives an object without the missing
\* fields' keys.
RECURSIVE RowOf(_, _, _)
RowOf(header, line, n) ==
  IF n = 0 THEN <<>>
  ELSE Put(RowOf(header, line, n - 1), transformHeader(header[n]),
           StringValue(transform(line[n])))

\* lines 25-30: result.data of Papa.parse(csvText, {header: true,
\* skipEmptyLines: true, transformHeader, transform})
PapaParse(csv) ==
  LET lines == SelectSeq(csv.lines, LAMBDA line : ~IsEmptyLine(line))
  IN  [r \in DOMAIN lines |-> RowOf(csv.header, lines[r], Len(lines[r]))]

\* lines 69-73: the value stored under mappedKey
Converted(mappedKey, value) ==
  IF mappedKey = F_firstPublished \/ mappedKey = F_pageCount
  THEN LET parsed == parseInt(value.s)
       IN  IF TruthyValue(parsed) THEN parsed ELSE NumberValue(0)
  ELSE IF TruthyValue(value) THEN value ELSE StringValue(<<>>)

\* The book of a row when a key that is already set is not overwritten.
RECURSIVE BookOfFirstWins(_, _)
BookOfFirstWins(row, n) ==
  IF n = 0 THEN <<>>
  ELSE LET csvKey == Keys(row)[n]
           mappedKey == MappedKey(csvKey)
           value == Get(row, csvKey)
       IN  IF Has(BookOfFirstWins(row, n - 1), mappedKey)
           THEN BookOfFirstWins(row, n - 1)
           ELSE Put(BookOfFirstWins(row, n - 1), mappedKey,
                    Converted(mappedKey, value))

\* lines 61-76: the book of a row, after its first n keys
RECURSIVE BookOf(_, _)
BookOf(row, n) ==
  IF n = 0 THEN <<>>
  ELSE LET csvKey == Keys(row)[n]
           mappedKey == MappedKey(csvKey)
           value == Get(row, csvKey)
       IN  Put(BookOf(row, n - 1), mappedKey, Converted(mappedKey, value))

\* The filter that keeps every book.
KeepsEveryBook(book) == TRUE

\* line 78: book.title && book.title.trim() !== ''
KeepsBook(book) ==
  LET title == Get(book, F_title)
  IN  TruthyValue(title) /\ Trim(title.s) # <<>>

\* parseCSV with the books in reverse order.
parseCSVReversed(csv) ==
  LET data == PapaParse(csv)
      kept == SelectSeq([r \in DOMAIN data |-> BookOf(data[r], Len(data[r]))],
                        KeepsBook)
  IN  [r \in DOMAIN kept |-> kept[Len(kept) + 1 - r]]

\* lines 23-79
parseCSV(csv) ==
  LET data == PapaParse(csv)
  IN  SelectSeq([r \in DOMAIN data |-> BookOf(data[r], Len(data[r]))],
                KeepsBook)

(***************************************************************************)
(* The CSV texts given to the converter, after the splitting into fields   *)
(* that Papa.parse does: a header row and the lines below it, each a       *)
(* sequence of fields.  No two header fields of a row are equal once       *)
(* transformed, and no line has more fields than its header row.           *)
(***************************************************************************)
\* A CSV text has at most this many lines below its header row.
MaxRows == 2

\* README-DATA.md, CSV Column Mapping: each column name and its field.
ReadmeColumns ==
  {<<<<"T", "i", "t", "l", "e">>, F_title>>,
    <<<<"A", "u", "t", "h", "o", "r">>, F_author>>,
    <<<<"F", "i", "r", "s", "t", " ", "P", "u", "b", "l", "i", "s", "h", "e", "d">>, F_firstPublished>>,
    <<<<"F", "i", "r", "s", "t", "P", "u", "b", "l", "i", "s", "h", "e", "d">>, F_firstPublished>>,
    <<<<"C", "a", "t", "e", "g", "o", "r", "y">>, F_category>>,
    <<<<"I", "S", "B", "N", "-", "1", "3">>, F_isbn13>>,
    <<<<"I", "S", "B", "N", "1", "3">>, F_isbn13>>,
    <<<<"I", "S", "B", "N">>, F_isbn13>>,
    <<<<"D", "e", "s", "c", "r", "i", "p", "t", "i", "o", "n">>, F_description>>,
    <<<<"P", "a", "g", "e", " ", "C", "o", "u", "n", "t">>, F_pageCount>>,
    <<<<"P", "a", "g", "e", "C", "o", "u", "n", "t">>, F_pageCount>>,
    <<<<"P", "a", "g", "e", "s">>, F_pageCount>>,
    <<<<"P", "u", "b", "l", "i", "s", "h", "e", "r">>, F_publisher>>,
    <<<<"T", "h", "u", "m", "b", "n", "a", "i", "l">>, F_thumbnail>>,
    <<<<"I", "m", "a", "g", "e">>, F_thumbnail>>,
    <<<<"B", "u", "y", " ", "L", "i", "n", "k">>, F_buyLink>>,
    <<<<"B", "u", "y", "L", "i", "n", "k">>, F_buyLink>>,
    <<<<"L", "i", "n", "k">>, F_buyLink>>,
    <<<<"U", "R", "L">>, F_buyLink>> }

UpperChar(c) ==
  IF \E k \in 1..26 : LowerCase[k] = c
  THEN UpperCase[CHOOSE k \in 1..26 : LowerCase[k] = c]
  ELSE c

\* A column name in capitals, with whitespace around it.
Padded(name) ==
  <<" ">> \o [k \in DOMAIN name |-> UpperChar(name[k])] \o <<"\t", " ">>

\* A header row of two columns: a title and one more column.
PairHeader(field, name) ==
  IF field = F_title THEN <<name, <<"A", "u", "t", "h", "o", "r">>>> ELSE <<<<"T", "i", "t", "l", "e">>, name>>

\* Every README column in such a header row, spelled as in the README and
\* padded.
PairHeaders ==
  UNION {{PairHeader(e[2], e[1]), PairHeader(e[2], Padded(e[1]))} :
           e \in ReadmeColumns}

\* Title,Author,ISBN: no numeric column, no thumbnail column.
HeaderScenario == <<<<"T", "i", "t", "l", "e">>, <<"A", "u", "t", "h", "o", "r">>, <<"I", "S", "B", "N">>>>

\* Both numeric columns, the title second, and a column the map ignores.
HeaderNumeric == <<<<"P", "a", "g", "e", "s">>, Padded(<<"T", "i", "t", "l", "e">>), <<"F", "i", "r", "s", "t", " ", "P", "u", "b", "l", "i", "s", "h", "e", "d">>, <<"N", "o", "t", "e">>>>

\* Two columns for isbn13 and two for buyLink.
HeaderColliding == <<<<"I", "S", "B", "N">>, <<"I", "S", "B", "N", "-", "1", "3">>, <<"T", "i", "t", "l", "e">>, <<"L", "i", "n", "k">>, <<"U", "R", "L">>>>

\* No title column.
HeaderNoTitle == <<<<"A", "u", "t", "h", "o", "r">>, <<"Y", "e", "a", "r">>>>

HeaderRows ==
  PairHeaders \cup {HeaderScenario, HeaderNumeric, HeaderColliding, HeaderNoTitle}

\* The lines below a header row.
CandidateLines ==
  {<<<<>>>>,
    <<<<" ", "A", " ">>, <<"3", "5", "0">>>>,
    <<<<"B">>, <<"a", "b", "c">>>>,
    <<<<" ">>, <<"1", "2">>>>,
    <<<<"C">>>>,
    <<<<"D">>, <<>>>>,
    <<<<"7">>, <<" ", "E", " ">>, <<"-", "5">>, <<"n">>>>,
    <<<<"1", "2", "a", "b", "c">>, <<>>, <<"F">>, <<"x">>, <<>>>>,
    <<<<"0", "x", "1", "A">>, <<"G">>, <<"3", ".", "7">>>> }

LinesFor(header) == {line \in CandidateLines : Len(line) <= Len(header)}

CsvInputs ==
  UNION {{[header |-> header, lines |-> lines] :
            lines \in UNION {[1..n -> LinesFor(header)] : n \in 0..MaxRows}} :
         header \in HeaderRows}

\* convert-sheet-to-json.mjs is started on a CSV text; fetch-thumbnails.mjs
\* is not running.
InitConverter ==
  /\ csvText \in CsvInputs
  /\ converted = <<>>
  /\ cpc = "parse"
  /\ isbnArg = <<>>
  /\ isbnRet = Pending
  /\ extractArg = NullData
  /\ extractRet = Pending
  /\ file = Unreadable
  /\ backup = Unreadable
  /\ run = 1
  /\ file0 = Unreadable
  /\ resolved1 = {}
  /\ StartOfRun

\* main, lines 99-100: const books = parseCSV(csvText), then written out.
ConvertMain ==
  /\ cpc = "parse"
  /\ converted' = parseCSV(csvText)
  /\ cpc' = "done"
  /\ UNCHANGED <<csvText, resolverVars, isbnVars, extractVars>>

NextConverter == ConvertMain

SpecConverter == InitConverter /\ [][NextConverter]_vars

(***************************************************************************)
(* convertISBN13ToISBN10 called on its own.                                *)
(***************************************************************************)
\* The digits the nine characters of the body are drawn from.
BodyDigits == {"0", "1", "9"}

IsbnExample == <<"9", "7", "8", "0", "3", "1", "6", "7", "6", "9", "4", "8", "8">>

\* Strings of thirteen digits: 978, a body, a check digit; the example of
\* a known conversion; and strings of other lengths, or with a character
\* that is no digit.
IsbnInputs ==
  {<<"9", "7", "8">> \o body \o <<"0">> : body \in [1..9 -> BodyDigits]}
    \cup {IsbnExample, <<>>, <<"9", "7", "8", "0", "3", "1", "6", "7", "6", "9", "4", "8">>, <<"9", "7", "8", "0", "3", "1", "6", "7", "6", "9", "4", "8", "8", "0">>,
          <<"0", "3", "1", "6", "7", "6", "9", "4", "8", "7">>, <<"9", "7", "8", "-", "0", "-", "3", "1", "6", "-", "7", "6", "9", "4", "8", "-", "8">>, <<"9", "7", "8", "-", "0", "3", "1", "6", "7", "6", "9", "4", "8">>}

InitIsbn ==
  /\ isbnArg \in IsbnInputs
  /\ isbnRet = Pending
  /\ extractArg = NullData
  /\ extractRet = Pending
  /\ csvText = NoCsv
  /\ converted = <<>>
  /\ cpc = "idle"
  /\ file = Unreadable
  /\ backup = Unreadable
  /\ run = 1
  /\ file0 = Unreadable
  /\ resolved1 = {}
  /\ StartOfRun

\* The call returns.
ConvertIsbn ==
  /\ isbnRet = Pending
  /\ isbnRet' = convertISBN13ToISBN10(isbnArg)
  /\ UNCHANGED <<isbnArg, resolverVars, converterVars, extractVars>>

NextIsbn == ConvertIsbn

SpecIsbn == InitIsbn /\ [][NextIsbn]_vars



(***************************************************************************)
(* The claims.                                                             *)
(***************************************************************************)
Last(seq) == seq[Len(seq)]

\* C1: once a strategy's response carries a usable image for a record, that
\* strategy's request is the last one issued for the record (no later
\* strategy is invoked; after an image from strategy 1 the record's only
\* request is strategy 1's) and the image is the record's thumbnail.
C1_CascadeShortCircuit ==
  \A k \in DOMAIN offered :
    offered[k] # NoOffer =>
      /\ calls[k] # <<>>
      /\ Last(calls[k]) = offered[k].strategy
      /\ \A j \in 1..Len(calls[k]) : calls[k][j] <= offered[k].strategy
      /\ (offered[k].strategy = 1 => calls[k] = <<1>>)
      /\ books[k].thumbnail = offered[k].thumbnail

\* A finished run in which strategy 1 yielded the image of a record to which
\* all four strategies apply.
C1_Witness ==
  /\ pc = "exit"
  /\ writes = 1
  /\ exitCode = 0
  /\ \E k \in DOMAIN offered :
       /\ offered[k].strategy = 1
       /\ \A s \in 1..4 : Applicable(readBooks[k], s)
       /\ file.data[k].thumbnail = offered[k].thumbnail

\* The run has written books.json and ended with status 0.
Written == pc = "exit" /\ writes = 1 /\ exitCode = 0

\* A string with at least one character.
NonEmpty(v) == v \notin {Undefined, Null, <<>>}

\* A string with at least one character that is not whitespace.
NonBlank(v) ==
  v \notin {Undefined, Null} /\ \E j \in 1..Len(v) : v[j] \notin WhiteSpace

\* Record k is left alone: no request was issued for it, and its thumbnail
\* is the one read, in memory and in the written file.
LeftAlone(k) ==
  /\ calls[k] = <<>>
  /\ books[k].thumbnail = readBooks[k].thumbnail
  /\ (Written => file.data[k].thumbnail = readBooks[k].thumbnail)

\* C2, as stated: for every record whose thumbnail is non-empty when the
\* file is read, the run issues no request for it and the written file
\* carries the thumbnail that was read.
C2_NonEmptyLeftAlone ==
  \A k \in DOMAIN readBooks : NonEmpty(readBooks[k].thumbnail) => LeftAlone(k)

\* C2, amended: for every record whose thumbnail, when the file is read,
\* is non-empty after trimming whitespace, the run issues no request for it
\* and the written file carries the thumbnail that was read.
C2_NonBlankLeftAlone ==
  \A k \in DOMAIN readBooks : NonBlank(readBooks[k].thumbnail) => LeftAlone(k)

\* A finished run that skipped a record with a thumbnail and queried
\* another record.
C2_Witness ==
  /\ Written
  /\ \E k, j \in DOMAIN readBooks :
       /\ readBooks[k].thumbnail = CoverUrl
       /\ file.data[k].thumbnail = CoverUrl
       /\ calls[k] = <<>>
       /\ calls[j] # <<>>

\* The thumbnail of every record of a collection, in order.
Thumbnails(collection) ==
  [k \in DOMAIN collection |-> collection[k].thumbnail]

\* No response of this run carried a usable image.
NoImageOffered == \A k \in DOMAIN offered : offered[k] = NoOffer

\* C3: in a second run on the file the first run wrote, no request is ever
\* issued for a record the first run resolved, and if no response of the
\* second run carries an image, the file the second run writes has the
\* thumbnail fields of the file the first run wrote.
C3_SecondRunIdempotent ==
  run = 2 =>
    /\ \A k \in resolved1 : k \in DOMAIN calls => calls[k] = <<>>
    /\ (Written /\ NoImageOffered =>
          Thumbnails(file.data) = Thumbnails(file0.data))

\* A finished second run, without any image, of a collection of which the
\* first run resolved one record and not another, which the second run
\* queried again.
C3_Witness ==
  /\ run = 2
  /\ Written
  /\ NoImageOffered
  /\ \E k, j \in DOMAIN calls :
       /\ k \in resolved1
       /\ j \notin resolved1
       /\ calls[j] # <<>>
       /\ file.data[k].thumbnail \in {ZoomUrlStored, PlainUrl}

\* C4: every request but a run's first is issued after at least the fixed
\* rate-limit delay has elapsed since the request before it, within one
\* record's cascade as well as across records.
C4_DelayBetweenCalls == lastCall.first \/ lastCall.gap >= RateLimitDelay

\* C5: the backup write is attempted after the data file is read and before
\* any request, any change of a thumbnail and the overwrite of the data
\* file; a backup that was written holds the collection as it was read.
C5_BackupPrecedesMutation ==
  /\ backupState # "none" => pc # "read" /\ file0.ok /\ readBooks = file0.data
  /\ (~NoCallYet \/ books # readBooks \/ writes > 0 \/ i > 0)
       => backupState # "none"
  /\ backupState = "ok" => backup.ok /\ Parse(backup) = file0.data

\* A finished run that changed a thumbnail and whose backup holds the
\* collection as read, which the data file no longer does.
C5_Witness ==
  /\ Written
  /\ backupState = "ok"
  /\ updated > 0
  /\ Parse(backup) = readBooks
  /\ Parse(file) # Parse(backup)

\* C6: the data file is written at most once per run, after the loop has
\* gone through every record; until then it is what it was when the run
\* started.
C6_SingleWriteAtEnd ==
  /\ writes <= 1
  /\ writes = 0 => file = file0
  /\ writes = 1 =>
       /\ pc = "exit"
       /\ i = Len(books)
       /\ updated + skipped + failed = Len(books)

\* In the middle of a run that has assigned a thumbnail in memory, the data
\* file is still the one the run started with.
C6_Witness ==
  /\ pc = "sleep"
  /\ updated = 1
  /\ books # Parse(file)
  /\ writes = 0
  /\ file = file0

\* A record with its thumbnail put aside.
Frame(book) == [book EXCEPT !.thumbnail = <<>>]

\* C7: the collection in memory, and the one written, has as many records
\* as the one read, in the same order, each with every field but thumbnail
\* unchanged.
C7_FrameCondition ==
  /\ pc \notin {"read"} /\ failure # "read" =>
       /\ Len(books) = Len(file0.data)
       /\ \A k \in DOMAIN books : Frame(books[k]) = Frame(file0.data[k])
  /\ Written =>
       /\ Len(file.data) = Len(file0.data)
       /\ \A k \in DOMAIN file.data :
            Frame(file.data[k]) = Frame(file0.data[k])

\* A written collection of two records, one of them with a new thumbnail.
C7_Witness ==
  /\ Written
  /\ Len(file.data) = 2
  /\ \E k \in DOMAIN file.data :
       /\ file.data[k].thumbnail # file0.data[k].thumbnail
       /\ file.data[k].category # <<>>

\* C8: the run exits with status 1 if and only if reading or parsing the
\* data file failed or writing it failed.
C8_ExitStatus ==
  pc = "exit" => (exitCode = 1 <=> failure \in {"read", "write"})

\* C9: after a failed backup write the run still goes through every record
\* and writes the data file, and exits with status 1 only if that write
\* fails.
C9_BackupFailureTolerated ==
  pc = "exit" /\ backupState = "failed" =>
    /\ i = Len(books)
    /\ writes = 1
    /\ (exitCode = 1 => failure = "write")

\* The strategies that apply to a record, in order.
ApplicableStrategies(book) ==
  SelectSeq(<<1, 2, 3, 4>>, LAMBDA s : Applicable(book, s))

\* C10: whatever the response to a request, no exception leaves the
\* strategy's attempt, and a record for which no response carried an image
\* has had the request of every strategy that applies to it, in order.
C10_FailuresAbsorbed ==
  /\ failure # "uncaught"
  /\ \A k \in DOMAIN calls :
       k <= i /\ offered[k] = NoOffer /\ ~NonBlank(readBooks[k].thumbnail)
         => calls[k] = ApplicableStrategies(readBooks[k])

\* C11: a request answered 429 is followed by the cooldown, longer than the
\* delay between records, before any further request; the call yields no
\* result, its query is not issued again, and the cascade goes on with the
\* next applicable strategy, or ends without a thumbnail if there is none.
C11_RateLimited ==
  [][ /\ lastCall'.after429 =>
           lastCall'.gap >= CooldownDelay /\ CooldownDelay > RateLimitDelay
      /\ pc = "cooldown" =>
           /\ books' = books
           /\ updated' = updated
           /\ IF \E s \in (strategy + 1)..4 : Applicable(books[i + 1], s)
              THEN /\ pc' = "await"
                   /\ strategy' > strategy
                   /\ Applicable(books[i + 1], strategy')
                   /\ \A t \in (strategy + 1)..(strategy' - 1) :
                        ~Applicable(books[i + 1], t)
                   /\ lastCall'.query # lastCall.query
                   /\ lastCall'.after429
              ELSE /\ yielded'[i + 1] = Null
                   /\ failed' = failed + 1
                   /\ calls' = calls ]_vars

C11_Witness ==
  /\ pc = "await"
  /\ lastCall.after429
  /\ lastCall.gap = CooldownDelay
  /\ strategy = 2
  /\ calls[i + 1] = <<1, 2>>

\* Record k was processed and no response to any of its requests carried a
\* usable image.
Exhausted(k) == ~NonBlank(readBooks[k].thumbnail) /\ offered[k] = NoOffer

\* C12, as stated: for every processed record whose every applicable
\* strategy yields no image, the thumbnail in the written file is the empty
\* string.
C12_ExhaustedIsEmptyString ==
  Written =>
    \A k \in DOMAIN readBooks : Exhausted(k) => file.data[k].thumbnail = <<>>

\* C12, amended: for every processed record whose every applicable strategy
\* yields no image, the thumbnail in the written file is the one that was
\* read: the empty string if it was the empty string, absent or
\* whitespace-only if it was that.
C12_ExhaustedIsUntouched ==
  Written =>
    \A k \in DOMAIN readBooks :
      Exhausted(k) =>
        /\ file.data[k].thumbnail = readBooks[k].thumbnail
        /\ (readBooks[k].thumbnail = <<>> => file.data[k].thumbnail = <<>>)

\* A finished run in which all four strategies were tried in vain for a
\* record read with the empty string, and the file carries the empty string.
C12_Witness ==
  /\ Written
  /\ \E k \in DOMAIN readBooks :
       /\ readBooks[k].thumbnail = <<>>
       /\ calls[k] = <<1, 2, 3, 4>>
       /\ Exhausted(k)
       /\ file.data[k].thumbnail = <<>>

\* A record with an empty thumbnail, no ISBN and no title.
Unresolvable(book) ==
  ~NonEmpty(book.thumbnail) /\ ~NonEmpty(book.isbn13) /\ ~NonEmpty(book.title)

\* C13: no request is ever issued for a record with an empty thumbnail, no
\* ISBN and no title, and the record stays as read, in memory and in the
\* written file; the step that processes it increments failed, and neither
\* updated nor skipped, and leaves the run going with its exit status.
C13_Unresolvable ==
  [][ /\ \A k \in DOMAIN readBooks' :
           Unresolvable(readBooks'[k]) =>
             /\ calls'[k] = <<>>
             /\ books'[k] = readBooks'[k]
             /\ (Written' => file'.data[k] = readBooks'[k])
      /\ (pc = "loop" /\ i < Len(books) /\ Unresolvable(books[i + 1])) =>
           /\ failed' = failed + 1
           /\ updated' = updated
           /\ skipped' = skipped
           /\ pc' \in {"sleep", "loop"}
           /\ exitCode' = exitCode
           /\ failure' = failure ]_vars

\* A finished run whose first record was unresolvable and counted as failed,
\* and whose second record was resolved afterwards.
C13_Witness ==
  /\ Written
  /\ Len(readBooks) = 2
  /\ Unresolvable(readBooks[1])
  /\ calls[1] = <<>>
  /\ file.data[1] = readBooks[1]
  /\ failed = 1
  /\ updated = 1

MaxItems == 2

TwoZoomUrl == <<"h", "t", "t", "p", ":", "/", "/", "d", "&", "z", "o", "o", "m", "=", "1", "&", "z", "o", "o", "m", "=", "2">>
HttpUrl == <<"h", "t", "t", "p", ":", "/", "/", "e">>

ItemLast == ItemWith([NoLinks EXCEPT !.extraLarge = TwoZoomUrl])
ItemMedium ==
  ItemWith([NoLinks EXCEPT !.smallThumbnail = <<>>, !.medium = HttpUrl,
                           !.large = PlainUrl])

ExtractItems ==
  {ItemNoVolumeInfo, ItemNoImageLinks, ItemEmptyLinks, ItemZoom, ItemSmall,
   ItemNull, ItemLast, ItemMedium}

\* Bodies with no items, with items that are no array, and with an array
\* of items.
ExtractInputs ==
  {[type |-> "object", items |-> items] :
     items \in {[type |-> "undefined"], [type |-> "null"],
                [type |-> "number"]}
               \cup {Array(elems) :
                       elems \in UNION {[1..n -> ExtractItems] :
                                          n \in 0..MaxItems}}}

InitExtract ==
  /\ extractArg \in ExtractInputs
  /\ extractRet = Pending
  /\ isbnArg = <<>>
  /\ isbnRet = Pending
  /\ csvText = NoCsv
  /\ converted = <<>>
  /\ cpc = "idle"
  /\ file = Unreadable
  /\ backup = Unreadable
  /\ run = 1
  /\ file0 = Unreadable
  /\ resolved1 = {}
  /\ StartOfRun

\* The call returns, or throws.
Extract ==
  /\ extractRet = Pending
  /\ extractRet' = extractThumbnail(extractArg)
  /\ UNCHANGED <<extractArg, resolverVars, converterVars, isbnVars>>

NextExtract == Extract

SpecExtract == InitExtract /\ [][NextExtract]_vars

(***************************************************************************)
(* The converter's claims.                                                 *)
(***************************************************************************)
\* The field a header cell names, read off the README's table; a column the
\* table does not know keeps its name, in lower case.
ExpectedField(name) ==
  IF \E e \in ReadmeColumns : name \in {e[1], Padded(e[1])}
  THEN (CHOOSE e \in ReadmeColumns : name \in {e[1], Padded(e[1])})[2]
  ELSE IF name = <<"N", "o", "t", "e">> THEN <<"n", "o", "t", "e">>
  ELSE <<"y", "e", "a", "r">>

\* The column of the title in a header row; 0 if it has none.
TitleColumn(header) ==
  IF \E c \in DOMAIN header : ExpectedField(header[c]) = F_title
  THEN CHOOSE c \in DOMAIN header : ExpectedField(header[c]) = F_title
  ELSE 0

\* The line has a title cell with a character that is not whitespace.
HasTitle(header, line) ==
  /\ TitleColumn(header) # 0
  /\ Len(line) >= TitleColumn(header)
  /\ NonBlank(line[TitleColumn(header)])

\* The title cells of the lines that have a title, trimmed, in line order.
ExpectedTitles(csv) ==
  LET kept == SelectSeq(csv.lines, LAMBDA line : HasTitle(csv.header, line))
  IN  [r \in DOMAIN kept |-> Trim(kept[r][TitleColumn(csv.header)])]

\* C15: every record of the converter's output has a title that is a
\* non-empty string without leading or trailing whitespace, and the output
\* has no more records than the CSV has lines with a title that is neither
\* empty, whitespace-only nor missing.
C15_TitleNonEmptyTrimmed ==
  cpc = "done" =>
    /\ \A j \in DOMAIN converted :
         LET title == Get(converted[j], F_title)
         IN  /\ title.type = "string"
             /\ title.s # <<>>
             /\ title.s[1] \notin WhiteSpace
             /\ title.s[Len(title.s)] \notin WhiteSpace
    /\ Len(converted) <= Len(ExpectedTitles(csvText))

\* A conversion that dropped a line with a whitespace-only title and kept a
\* line whose title cell had whitespace around it.
C15_Witness ==
  /\ cpc = "done"
  /\ csvText.header = HeaderScenario
  /\ csvText.lines = << <<<<" ">>, <<"1", "2">>>>, <<<<" ", "A", " ">>, <<"3", "5", "0">>>> >>
  /\ Len(converted) = 1
  /\ Get(converted[1], F_title) = StringValue(<<"A">>)

\* The books of the first n lines, each line converted on its own, one
\* after the other.
RECURSIVE LineByLine(_, _)
LineByLine(csv, n) ==
  IF n = 0 THEN <<>>
  ELSE LineByLine(csv, n - 1)
         \o parseCSV([header |-> csv.header, lines |-> <<csv.lines[n]>>])

\* C16: the output is the sequence of the parsed lines' books without those
\* of empty title, in line order: its titles are the titles of the lines
\* that have one, in that order, and it is what the lines give one by one,
\* each line at most one book, so that none is merged, repeated or moved
\* and equal lines give equal books side by side.
C16_OrderPreserved ==
  cpc = "done" =>
    /\ [j \in DOMAIN converted |-> Get(converted[j], F_title)]
         = [j \in DOMAIN ExpectedTitles(csvText) |->
              StringValue(ExpectedTitles(csvText)[j])]
    /\ converted = LineByLine(csvText, Len(csvText.lines))
    /\ \A r \in DOMAIN csvText.lines :
         Len(LineByLine(csvText, r)) <= Len(LineByLine(csvText, r - 1)) + 1

\* A conversion of two different lines with a title, both kept, in line
\* order.
C16_Witness ==
  /\ cpc = "done"
  /\ csvText.header = HeaderNumeric
  /\ Len(csvText.lines) = 2
  /\ Len(converted) = 2
  /\ Get(converted[1], F_title) = StringValue(<<"E">>)
  /\ Get(converted[2], F_title) = StringValue(<<"G">>)

\* The keys a book gets from the first n columns of a header row, read off
\* the README's table: each column's field, once, in column order.
RECURSIVE ExpectedKeys(_, _)
ExpectedKeys(header, n) ==
  IF n = 0 THEN <<>>
  ELSE LET keys == ExpectedKeys(header, n - 1)
           field == ExpectedField(header[n])
       IN  IF \E j \in DOMAIN keys : keys[j] = field THEN keys
           ELSE Append(keys, field)

\* C17: every column name of the README's table, as spelled there or in
\* capitals with whitespace around it, gives the book the table's field:
\* the keys of every book of the output are the fields of the header row's
\* leading columns.
C17_HeaderMapping ==
  cpc = "done" =>
    \A j \in DOMAIN converted :
      \E n \in DOMAIN csvText.header :
        Keys(converted[j]) = ExpectedKeys(csvText.header, n)

\* A conversion under the header row Title, " BUY LINK " that gave a book
\* with the keys title and buyLink.
C17_Witness ==
  /\ cpc = "done"
  /\ csvText.header = PairHeader(F_buyLink, Padded(<<"B", "u", "y", " ", "L", "i", "n", "k">>))
  /\ \E j \in DOMAIN converted : Keys(converted[j]) = <<F_title, F_buyLink>>

\* The fields of Book and those of type number.
BookFields ==
  {F_title, F_author, F_firstPublished, F_category, F_isbn13, F_description,
   F_pageCount, F_publisher, F_thumbnail, F_buyLink}

NumericFields == {F_firstPublished, F_pageCount}

\* The integer a numeric cell stands for: its digits' value, 0 if it is
\* empty or no number.
ExpectedNumber(cell) ==
  CASE cell = <<"3", "5", "0">> -> 350
    [] cell = <<"1", "2">> -> 12
    [] OTHER -> 0

\* C18, as stated: in every record of the output firstPublished and
\* pageCount are integers; and a line of a title and a numeric cell gives
\* the cell's integer ("350" gives 350) or 0 if the cell does not parse
\* ("abc"), is empty or is missing.
C18_NumericCoercion ==
  cpc = "done" =>
    /\ \A j \in DOMAIN converted :
         \A field \in NumericFields :
           Get(converted[j], field).type = "number"
    /\ \A field \in NumericFields :
         ( /\ Len(csvText.header) = 2
           /\ ExpectedField(csvText.header[2]) = field
           /\ Len(csvText.lines) = 1
           /\ Len(converted) = 1 ) =>
           Get(converted[1], field) =
             NumberValue(IF Len(csvText.lines[1]) = 2
                         THEN ExpectedNumber(csvText.lines[1][2])
                         ELSE 0)

\* C19, as stated: every record of the output has every field of Book, a
\* number for firstPublished and pageCount and a string for the others,
\* and a field whose column the header row lacks is 0 or the empty string.
C19_DefaultsForAbsentColumns ==
  cpc = "done" =>
    \A j \in DOMAIN converted :
      \A field \in BookFields :
        /\ Has(converted[j], field)
        /\ Get(converted[j], field).type =
             (IF field \in NumericFields THEN "number" ELSE "string")
        /\ (\A c \in DOMAIN csvText.header :
               ExpectedField(csvText.header[c]) # field) =>
             Get(converted[j], field) =
               (IF field \in NumericFields THEN NumberValue(0)
                ELSE StringValue(<<>>))

DigitChars == <<"0", "1", "2", "3", "4", "5", "6", "7", "8", "9">>

IsDigits(s) == \A k \in DOMAIN s : \E d \in 1..10 : DigitChars[d] = s[k]

\* The value of a digit.
Value(c) == (CHOOSE d \in 1..10 : DigitChars[d] = c) - 1

\* Digits 4..12 of s and the check character of their weighted sum.
ExpectedIsbn10(s) ==
  LET sum == Value(s[4]) * 10 + Value(s[5]) * 9 + Value(s[6]) * 8
               + Value(s[7]) * 7 + Value(s[8]) * 6 + Value(s[9]) * 5
               + Value(s[10]) * 4 + Value(s[11]) * 3 + Value(s[12]) * 2
      c == (11 - (sum % 11)) % 11
  IN  SubSeq(s, 4, 12) \o <<IF c = 10 THEN "X" ELSE DigitChars[c + 1]>>

\* C20: for a string s of thirteen digits convertISBN13ToISBN10 returns
\* the ten characters made of digits 4..12 of s and the check character of
\* sum = digit[0]*10 + ... + digit[8]*2, c = (11 - sum mod 11) mod 11, X
\* for 10; 9780316769488 gives 0316769487; and a string whose length is
\* not 13 gives null.
C20_Isbn10Derivation ==
  isbnRet # Pending =>
    /\ (Len(isbnArg) = 13 /\ IsDigits(isbnArg)) =>
         isbnRet = ExpectedIsbn10(isbnArg) /\ Len(isbnRet) = 10
    /\ Len(isbnArg) # 13 => isbnRet = Null
    /\ isbnArg = IsbnExample => isbnRet = <<"0", "3", "1", "6", "7", "6", "9", "4", "8", "7">>

\* The call on 9780316769488 returned 0316769487.
C20_Witness ==
  /\ isbnArg = IsbnExample
  /\ isbnRet = <<"0", "3", "1", "6", "7", "6", "9", "4", "8", "7">>

(***************************************************************************)
(* extractThumbnail's claims.                                              *)
(***************************************************************************)
\* The image links of an item, if it has any.
LinksOf(item) ==
  IF item.type = "object" /\ item.volumeInfo.type = "object"
  THEN item.volumeInfo.imageLinks
  ELSE [type |-> "undefined"]

\* The item's five image links, in the order of preference.
LinkList(item) ==
  LET links == LinksOf(item)
  IN  IF links.type # "object" THEN <<>>
      ELSE <<links.thumbnail, links.smallThumbnail, links.medium,
             links.large, links.extraLarge>>

\* The item has at least one non-empty image link.
HasLink(item) ==
  \E n \in DOMAIN LinkList(item) : NonEmpty(LinkList(item)[n])

\* The first non-empty image link of the item.
FirstLink(item) ==
  LinkList(item)[CHOOSE n \in DOMAIN LinkList(item) :
                   /\ NonEmpty(LinkList(item)[n])
                   /\ \A m \in 1..(n - 1) : ~NonEmpty(LinkList(item)[m])]

\* The items of a body; none if it has no array of items.
ItemsOf(data) ==
  IF data.items.type = "array" THEN data.items.elems ELSE <<>>

\* C21, as stated: for every body the extracted image is the first
\* non-empty link, in the order of preference, of the first item that has
\* one, and a body with no items or with no such item gives null.
C21_FirstItemFirstLink ==
  extractRet # Pending =>
    LET items == ItemsOf(extractArg)
    IN  IF \E k \in DOMAIN items : HasLink(items[k])
        THEN LET k == CHOOSE j \in DOMAIN items :
                        /\ HasLink(items[j])
                        /\ \A h \in 1..(j - 1) : ~HasLink(items[h])
             IN  extractRet = NormalizeUrl(FirstLink(items[k]))
        ELSE extractRet = Null

\* The string has "&zoom=" and a digit at position p.
ZoomFragmentAt(s, p) ==
  /\ p + 6 <= Len(s)
  /\ SubSeq(s, p, p + 5) = <<"&", "z", "o", "o", "m", "=">>
  /\ s[p + 6] \in Digits

\* The string has "&zoom=" somewhere.
HasZoomParam(s) ==
  \E p \in 1..Len(s) : p + 5 <= Len(s) /\ SubSeq(s, p, p + 5) = <<"&", "z", "o", "o", "m", "=">>

StartsWithHttp(s) == Len(s) >= 5 /\ SubSeq(s, 1, 5) = <<"h", "t", "t", "p", ":">>

\* The source URL of the image extractThumbnail returned.
SourceUrl(data) ==
  FirstLink(ItemsOf(data)[CHOOSE j \in DOMAIN ItemsOf(data) :
                            /\ HasLink(ItemsOf(data)[j])
                            /\ \A h \in 1..(j - 1) :
                                 ~HasLink(ItemsOf(data)[h])])

\* C22, as stated: a URL that extractThumbnail returns, which is the URL
\* the script stores, does not start with http: and has no &zoom=<digits>
\* fragment, and if the source URL has no &zoom= it is the source URL with
\* a leading http: replaced by https:.
C22_UrlNormalized ==
  extractRet \notin {Pending, Null, TypeError} =>
    /\ ~StartsWithHttp(extractRet)
    /\ \A p \in 1..Len(extractRet) : ~ZoomFragmentAt(extractRet, p)
    /\ ~HasZoomParam(SourceUrl(extractArg)) =>
         extractRet =
           (IF StartsWithHttp(SourceUrl(extractArg))
            THEN <<"h", "t", "t", "p", "s", ":">> \o SubSeq(SourceUrl(extractArg), 6,
                                Len(SourceUrl(extractArg)))
            ELSE SourceUrl(extractArg))

(***************************************************************************)
(* The run's claims, continued.                                            *)
(***************************************************************************)
\* The loop is over and the data file is about to be overwritten.
OverwritePoint == pc = "loop" /\ i >= Len(books)

\* C23, as stated: when the data file is about to be overwritten the
\* backup file is identical to it.
C23_BackupIdenticalAtOverwrite == OverwritePoint => backup = file

\* C23, amended: the backup is written at the start of the run, before the
\* first record is processed; if that write succeeded then, when the data
\* file is about to be overwritten, the backup holds the collection the
\* data file holds, which is the one the run read, laid out by
\* JSON.stringify(books, null, 2), and so is identical to the data file if
\* that is laid out so.
C23_BackupHoldsCollectionRead ==
  /\ backupState = "none" => i = 0 /\ NoCallYet /\ books \in {<<>>, readBooks}
  /\ (OverwritePoint /\ backupState = "ok") =>
       /\ backup.ok
       /\ Parse(backup) = Parse(file)
       /\ Parse(backup) = readBooks
       /\ backup.fmt = "pretty2"
       /\ (file.fmt = "pretty2" => backup = file)

\* A run about to overwrite, after it assigned a thumbnail, a data file in
\* another layout: the backup holds the same collection and is not
\* identical.
C23_Witness ==
  /\ OverwritePoint
  /\ backupState = "ok"
  /\ updated > 0
  /\ file.fmt = "other"
  /\ Parse(backup) = Parse(file)
  /\ backup # file

\* A string without its hyphens and whitespace.
Stripped(isbn) ==
  SelectSeq(isbn, LAMBDA c : c # "-" /\ c \notin WhiteSpace)

\* Strategy s applies to the book, as the claim has it.
StrategyApplies(book, s) ==
  CASE s = 1 -> NonEmpty(book.isbn13) /\ Stripped(book.isbn13) # <<>>
    [] s = 2 -> NonEmpty(book.isbn13) /\ Len(Stripped(book.isbn13)) = 13
    [] s = 3 -> NonEmpty(book.title) /\ NonEmpty(book.author)
    [] s = 4 -> NonEmpty(book.title)

\* C24: the requests issued for a record are in the order ISBN-13,
\* ISBN-10, title+author, title-only; each is issued only if its strategy
\* applies to the record (a non-empty stripped isbn13; a stripped isbn13 of
\* 13 characters; a title and an author; a title), and none is issued
\* while an earlier strategy that applies has not been tried.
C24_StrategyOrder ==
  \A k \in DOMAIN calls :
    /\ \A a, b \in DOMAIN calls[k] : a < b => calls[k][a] < calls[k][b]
    /\ \A a \in DOMAIN calls[k] :
         /\ calls[k][a] \in 1..4
         /\ StrategyApplies(readBooks[k], calls[k][a])
         /\ \A t \in 1..(calls[k][a] - 1) :
              StrategyApplies(readBooks[k], t) =>
                \E b \in 1..(a - 1) : calls[k][b] = t

\* A finished run that tried all four strategies for one record and, for
\* a record with a short ISBN and no author, the first and the fourth.
C24_Witness ==
  /\ Written
  /\ \E k, j \in DOMAIN calls :
       /\ calls[k] = <<1, 2, 3, 4>>
       /\ calls[j] = <<1, 4>>
       /\ readBooks[j].isbn13 = IsbnShort

\* C25: when the loop comes to a record after one it queried the service
\* for, the fixed delay has elapsed since that record's last request; the
\* sleep is performed after no record that is the last of the collection,
\* so that the overwrite follows the last record's last response with no
\* delay but a cooldown that response may have caused.
C25_InterRecordDelay ==
  /\ (pc = "loop" /\ 0 < i /\ i < Len(books) /\ calls[i] # <<>>) =>
       elapsed >= RateLimitDelay
  /\ pc = "sleep" => i < Len(books) - 1
  /\ (OverwritePoint /\ 0 < i /\ calls[i] # <<>>) =>
       elapsed = (IF limited THEN CooldownDelay ELSE 0)

\* The loop at the second of two records, the fixed delay after the first
\* record's only request.
C25_Witness ==
  /\ pc = "loop"
  /\ i = 1
  /\ Len(books) = 2
  /\ Len(calls[1]) = 1
  /\ elapsed = RateLimitDelay

\* C26: at most one request is outstanding, and it is the latest of the
\* record the loop is at; nothing has been requested or assigned for any
\* later record; the index goes up by one at a time, every record before
\* it has been counted once, and a step issues at most one request, for
\* the record the loop is at.
C26_Sequential ==
  [][ /\ pc' \in {"await", "cooldown"} =>
           /\ strategy' \in 1..4
           /\ i' < Len(books')
           /\ calls'[i' + 1] # <<>>
           /\ Last(calls'[i' + 1]) = strategy'
      /\ pc' \in {"read", "backup", "loop", "sleep"} => strategy' = 0
      /\ \A k \in DOMAIN calls' :
           k > i' + 1 =>
             calls'[k] = <<>> /\ yielded'[k] = Null
               /\ books'[k] = readBooks'[k]
      /\ pc' \in {"loop", "await", "cooldown", "sleep"} =>
           updated' + skipped' + failed'
             = (IF pc' = "sleep" THEN i' + 1 ELSE i')
      /\ i' \in {i, i + 1}
      /\ calls' # calls /\ calls # <<>> =>
           /\ i' = i
           /\ pc' = "await"
           /\ calls' = [calls EXCEPT ![i + 1] = Append(@, strategy')] ]_vars

\* A request for the second record is outstanding after the first record
\* has been queried and counted.
C26_Witness ==
  /\ pc = "await"
  /\ i = 1
  /\ calls[1] # <<>>
  /\ Len(calls[2]) = 1
  /\ updated + failed = 1

\* No record has more than four requests, and no strategy is requested
\* twice for one record.
C27_CallBound ==
  \A k \in DOMAIN calls :
    /\ Len(calls[k]) <= 4
    /\ \A a, b \in DOMAIN calls[k] :
         /\ calls[k][a] \in 1..4
         /\ a # b => calls[k][a] # calls[k][b]

\* C27: when every awaited operation settles, the run ends, with the
\* final write or with exit status 1; no record has more than four
\* requests and none has two of one strategy; while a request is
\* outstanding the file has not been written, and the only step the run
\* can take is the return of that request.
C27_TerminationAndCallBound ==
  /\ <>(pc = "exit" /\ (writes = 1 \/ exitCode = 1))
  /\ [](C27_CallBound)
  /\ [](pc = "await" => writes = 0 /\ file = file0)
  /\ [][pc = "await" => \E response \in Responses : Respond(response)]_vars

\* A run that ended with the write after four requests for a record that
\* stayed unresolved.
C27_Witness ==
  /\ pc = "exit"
  /\ writes = 1
  /\ \E k \in DOMAIN calls : Len(calls[k]) = 4 /\ yielded[k] = Null

\* The records the loop has dealt with: those before the index, and the
\* one at the index once its fetch has returned.
Processed == 1..(IF pc = "sleep" THEN i + 1 ELSE i)

\* Record k was assigned the thumbnail its fetch returned.
Assigned(k) == Truthy(yielded[k]) /\ books[k].thumbnail = yielded[k]

CountersAddUp ==
  /\ Processed \subseteq DOMAIN readBooks
  /\ updated + skipped + failed = Cardinality(Processed)
  /\ (OverwritePoint \/ Written) =>
       updated + skipped + failed = Len(books)
  /\ updated = Cardinality({k \in Processed : Assigned(k)})

\* C28, as stated: the three counters sum to the number of records
\* processed, updated counts the records assigned a thumbnail in this run,
\* and skipped counts the processed records whose thumbnail was non-empty
\* when read.
C28_SkippedCountsNonEmpty ==
  /\ CountersAddUp
  /\ skipped =
       Cardinality({k \in Processed : NonEmpty(readBooks[k].thumbnail)})

\* C28, amended: the three counters sum to the number of records
\* processed, and to the collection length when the loop is over; updated
\* counts the records assigned a thumbnail in this run, and skipped counts
\* the processed records whose thumbnail, when read, was non-empty after
\* trimming whitespace.
C28_SkippedCountsNonBlank ==
  /\ CountersAddUp
  /\ skipped =
       Cardinality({k \in Processed : NonBlank(readBooks[k].thumbnail)})

\* A finished run that skipped one record and assigned a thumbnail to a
\* record whose thumbnail was a single space.
C28_Witness ==
  /\ Written
  /\ skipped = 1
  /\ updated = 1
  /\ \E k \in DOMAIN readBooks :
       readBooks[k].thumbnail = <<" ">> /\ Assigned(k)

(***************************************************************************)
(* The ISBN-10 checksum.                                                   *)
(***************************************************************************)
\* The value of a character of an ISBN-10: a digit's value, and 10 for X.
Isbn10Value(c) ==
  CASE c = "0" -> 0 [] c = "1" -> 1 [] c = "2" -> 2 [] c = "3" -> 3
    [] c = "4" -> 4 [] c = "5" -> 5 [] c = "6" -> 6 [] c = "7" -> 7
    [] c = "8" -> 8 [] c = "9" -> 9 [] c = "X" -> 10

\* The sum of the first n characters' values with the weights 10, 9, ...
RECURSIVE Isbn10Checksum(_, _)
Isbn10Checksum(v, n) ==
  IF n = 0 THEN 0
  ELSE Isbn10Checksum(v, n - 1) + Isbn10Value(v[n]) * (11 - n)

\* C29: for a string of thirteen digits the result of
\* convertISBN13ToISBN10 has ten characters, nine digits and a check
\* character that is a digit or X, and the sum of their values (X is 10)
\* with the weights 10 down to 1 is a multiple of 11.
C29_Isbn10ChecksumValid ==
  (isbnRet # Pending /\ Len(isbnArg) = 13 /\ IsDigits(isbnArg)) =>
    /\ Len(isbnRet) = 10
    /\ \A p \in 1..9 : isbnRet[p] \in Digits
    /\ isbnRet[10] \in Digits \cup {"X"}
    /\ Isbn10Checksum(isbnRet, 10) % 11 = 0

\* A conversion of thirteen digits whose check character is X.
C29_Witness ==
  /\ Len(isbnArg) = 13
  /\ IsDigits(isbnArg)
  /\ isbnRet # Pending
  /\ isbnRet # Null
  /\ isbnRet[10] = "X"

(***************************************************************************)
(* Columns of one field.                                                   *)
(***************************************************************************)
\* The columns of a header row that name the field.
ColumnsOf(header, field) ==
  {c \in DOMAIN header : ExpectedField(header[c]) = field}

\* The lines that have a title, in line order.
TitledLines(csv) ==
  SelectSeq(csv.lines, LAMBDA line : HasTitle(csv.header, line))

\* The right-most of the columns in which the line has a cell.
RightMost(columns, line) ==
  CHOOSE c \in columns \cap DOMAIN line :
    \A d \in columns \cap DOMAIN line : d <= c

====
